---- MODULE Spec2Model ----
(***************************************************************************)
(* The Azure blob storage backend of django-storages                       *)
(* (src/storages/backends/azure_storage.py): the blob-name normalisation   *)
(* (_get_valid_filename, AzureStorage.get_valid_name), the available-name  *)
(* probe loop (AzureStorage.get_available_name) and AzureStorage.save.     *)
(*                                                                         *)
(* A name is a sequence of one-character strings.                          *)
(***************************************************************************)
EXTENDS Integers, Sequences, FiniteSets

VARIABLES
    raw,        \* SpecNorm: the raw name handed to get_valid_name
    npc,        \* SpecNorm: "start" | "once" | "twice"
    out1,       \* SpecNorm: outcome of get_valid_name(raw)
    out2,       \* SpecNorm: outcome of get_valid_name(out1.name)
    overwrite_files,  \* AzureStorage.overwrite_files (the AZURE_OVERWRITE_FILES setting)
    blobs,      \* the container: blob name -> content
    call,       \* caller -> the storage call it is in, see IdleCall
    file,       \* the AzureStorageFile, see NoFile
    ls          \* the listdir call, see NoListing

vars == <<raw, npc, out1, out2, overwrite_files, blobs, call, file, ls>>

(***************************************************************************)
(* Bounds of the model.                                                    *)
(***************************************************************************)
\* longest raw name enumerated over Alphabet
MaxRawLen == 5
\* most existence probes followed in one get_available_name call
MaxProbes == 5

(***************************************************************************)
(* Characters.                                                             *)
(***************************************************************************)
Letters ==
    {"a", "b", "c", "d", "e", "f", "g", "h", "i", "j", "k", "l", "m",
     "n", "o", "p", "q", "r", "s", "t", "u", "v", "w", "x", "y", "z"}

Digits == {"0", "1", "2", "3", "4", "5", "6", "7", "8", "9"}

\* what \w matches under (?u): letters (any script), digits, underscore;
\* "U+00EF" stands for the one character i-diaeresis, a non-ASCII letter
WordChars == Letters \cup Digits \cup {"_", "U+00EF"}

\* the complement of the class [^-_\w./] of the regular expression
AllowedChar(c) == c \in WordChars \cup {"-", "_", ".", "/"}

\* the characters raw names are enumerated over
Alphabet == {"a", ".", "/", "\\", " ", "$"}

(***************************************************************************)
(* Python string operations used by the code.                              *)
(***************************************************************************)
\* s * n
Repeat(s, n) == [i \in 1..(n * Len(s)) |-> s[((i - 1) % Len(s)) + 1]]

\* s.replace(old, new) for one-character old and new
replace(s, old, new) == [i \in 1..Len(s) |-> IF s[i] = old THEN new ELSE s[i]]

\* s.startswith(prefix)
startswith(s, prefix) ==
    Len(s) >= Len(prefix) /\ SubSeq(s, 1, Len(prefix)) = prefix

\* a variant that removes the characters from the right end only
StripRightOnly(s, chars) ==
    LET keep == {i \in 1..Len(s) : s[i] \notin chars}
    IN  IF keep = {} THEN <<>>
        ELSE SubSeq(s, 1, CHOOSE i \in keep : \A j \in keep : j <= i)

\* s.strip(chars): the characters of chars removed from both ends
strip(s, chars) ==
    LET keep == {i \in 1..Len(s) : s[i] \notin chars}
    IN  IF keep = {} THEN <<>>
        ELSE LET first == CHOOSE i \in keep : \A j \in keep : i <= j
                 last == CHOOSE i \in keep : \A j \in keep : j <= i
             IN  SubSeq(s, first, last)

\* s[lo..hi].split(sep): the pieces between the separators, empty pieces kept.
\* The range is halved, and the two halves' boundary pieces are one piece.
RECURSIVE SplitRange(_, _, _, _)
SplitRange(s, sep, lo, hi) ==
    IF lo > hi THEN << <<>> >>
    ELSE IF lo = hi
    THEN IF s[lo] = sep THEN << <<>>, <<>> >> ELSE << <<s[lo]>> >>
    ELSE LET mid == (lo + hi) \div 2
             L == SplitRange(s, sep, lo, mid)
             R == SplitRange(s, sep, mid + 1, hi)
         IN  SubSeq(L, 1, Len(L) - 1) \o << L[Len(L)] \o R[1] >>
                 \o SubSeq(R, 2, Len(R))

\* s.split(sep)
split(s, sep) == SplitRange(s, sep, 1, Len(s))

\* sep.join(comps[lo..hi])
RECURSIVE JoinRange(_, _, _, _)
JoinRange(comps, sep, lo, hi) ==
    IF lo > hi THEN <<>>
    ELSE IF lo = hi THEN comps[lo]
    ELSE LET mid == (lo + hi) \div 2
         IN  JoinRange(comps, sep, lo, mid) \o <<sep>>
                 \o JoinRange(comps, sep, mid + 1, hi)

\* sep.join(comps)
join(comps, sep) == JoinRange(comps, sep, 1, Len(comps))

(***************************************************************************)
(* os.path.normpath (posixpath).                                           *)
(***************************************************************************)
dotdot == <<".", ".">>

\* a variant in which '..' removes nothing
NormpathStepKeepsDotDot(new_comps, comp, initial_slashes) ==
    IF comp = <<>> \/ comp = <<".">> THEN new_comps
    ELSE Append(new_comps, comp)

\* one round of normpath's loop "for comp in comps"
NormpathStep(new_comps, comp, initial_slashes) ==
    IF comp = <<>> \/ comp = <<".">> THEN new_comps
    ELSE IF \/ comp # dotdot
            \/ (initial_slashes = 0 /\ new_comps = <<>>)
            \/ (new_comps # <<>> /\ new_comps[Len(new_comps)] = dotdot)
    THEN Append(new_comps, comp)
    ELSE IF new_comps # <<>>
    THEN SubSeq(new_comps, 1, Len(new_comps) - 1)
    ELSE new_comps

\* the loop over comps[lo..hi], in order, starting from new_comps; the rounds
\* of the first half are run before the second half is entered
RECURSIVE NormpathLoop(_, _, _, _, _)
NormpathLoop(new_comps, comps, initial_slashes, lo, hi) ==
    IF lo > hi THEN new_comps
    ELSE IF lo = hi THEN NormpathStep(new_comps, comps[lo], initial_slashes)
    ELSE LET mid == (lo + hi) \div 2
             half == NormpathLoop(new_comps, comps, initial_slashes, lo, mid)
         IN  IF Len(half) >= 0
             THEN NormpathLoop(half, comps, initial_slashes, mid + 1, hi)
             ELSE half

normpath(path) ==
    IF path = <<>> THEN <<".">>
    ELSE LET initial_slashes ==
                 IF ~startswith(path, <<"/">>) THEN 0
                 ELSE IF startswith(path, <<"/", "/">>)
                         /\ ~startswith(path, <<"/", "/", "/">>)
                 THEN 2 ELSE 1
             comps == split(path, "/")
             new_comps == NormpathLoop(<<>>, comps, initial_slashes, 1, Len(comps))
             joined == Repeat(<<"/">>, initial_slashes) \o join(new_comps, "/")
         IN  IF joined = <<>> THEN <<".">> ELSE joined

(***************************************************************************)
(* _get_valid_filename and AzureStorage.get_valid_name.                    *)
(***************************************************************************)
\* lines 100-101: the replacements, then the deletion of disallowed characters
ReplaceAndFilter(s) ==
    SelectSeq(replace(replace(s, "\\", "/"), " ", "_"), AllowedChar)

\* a variant that resolves the path before the characters are replaced
GetValidFilenameNormpathFirst(s) ==
    strip(ReplaceAndFilter(normpath(s)), {" ", ".", "/"})

_get_valid_filename(s) ==
    strip(normpath(ReplaceAndFilter(s)), {" ", ".", "/"})

_AZURE_NAME_MAX_LEN == 1024

Ok(name) == [ok |-> TRUE, name |-> name, error |-> "none"]
Raised(error) == [ok |-> FALSE, name |-> <<>>, error |-> error]

\* a variant without the emptiness test
GetValidNameNoEmptyCheck(name) ==
    LET n == _get_valid_filename(name)
    IN  IF Len(n) > _AZURE_NAME_MAX_LEN THEN Raised("ValueError")
        ELSE Ok(n)

\* a variant whose length test is off by one
GetValidNameOffByOne(name) ==
    LET n == _get_valid_filename(name)
    IN  IF Len(n) > _AZURE_NAME_MAX_LEN + 1 THEN Raised("ValueError")
        ELSE IF Len(n) = 0 THEN Raised("ValueError")
        ELSE Ok(n)

get_valid_name(name) ==
    LET n == _get_valid_filename(name)
    IN  IF Len(n) > _AZURE_NAME_MAX_LEN THEN Raised("ValueError")
        ELSE IF Len(n) = 0 THEN Raised("ValueError")
        ELSE Ok(n)

(***************************************************************************)
(* The raw names the normalisation is run on.                              *)
(***************************************************************************)
\* the raw names of the tests (src/tests/test_azure.py, lines 29-118 and 218)
TestNames ==
    {<<"p", "a", "t", "h", "/", "t", "o", "/", "s", "o", "m", "e", "w",
       "h", "e", "r", "e">>,
     <<"p", "a", "t", "h", "/", "t", "o", "/", ".", ".", "/", "s", "o",
       "m", "e", "w", "h", "e", "r", "e">>,
     <<"p", "a", "t", "h", "/", "t", "o", "/", ".", ".", "/">>,
     <<"p", "a", "t", "h", "\\", "t", "o", "\\", ".", ".", "\\">>,
     <<"p", "a", "t", "h", "/", "n", "a", "m", "e", "/">>,
     <<"p", "a", "t", "h", "\\", "t", "o", "\\", "s", "o", "m", "e", "w",
       "h", "e", "r", "e">>,
     <<"s", "o", "m", "e", "/", "$", "/", "p", "a", "t", "h">>,
     <<"/", "$", "/", "p", "a", "t", "h">>,
     <<"p", "a", "t", "h", "/", "$", "/">>,
     <<"s", "o", "m", "e", "/", "/", "/", "p", "a", "t", "h">>,
     <<"s", "o", "m", "e", "/", "/", "p", "a", "t", "h">>,
     <<"s", "o", "m", "e", "\\", "\\", "p", "a", "t", "h">>,
     <<>>,
     <<"/">>,
     <<"/", ".", ".", "/">>,
     <<".", ".">>,
     <<"/", "/", "/">>,
     <<"!", "!", "!">>,
     <<"$", "$">>,
     <<"/", "/", "$", "/", "/", "a", "/", "/", "$", "/", "/">>,
     <<"s", "o", "m", "e", " ", "p", "a", "t", "h", "/", "s", "o", "m",
       "e", " ", "l", "o", "n", "g", " ", "n", "a", "m", "e", " ", "&",
       " ", "t", "h", "e", "n", " ", "s", "o", "m", "e", ".", "t", "x",
       "t">>,
     <<"f", "o", "o", " ", "b", "a", "r", " ", "b", "a", "z", ".", "t",
       "x", "t">>,
     <<"t", "e", "s", "t", "_", "o", "p", "e", "n", "_", "f", "o", "r",
       "_", "w", "r", "i", "t", "U+00EF", "n", "g", ".", "t", "x", "t">>}

\* more raw names longer than MaxRawLen: '..' above the root, dots left at an
\* end by the resolution, leading double slash
TraversalNames ==
    {<<"a", "/", ".", ".", "/", ".", ".", "/", "b">>,
     <<"a", "/", ".", ".", "/", ".", "b">>,
     <<".", ".", "/", ".", ".", "/", "a", "/", ".", ".", "/", ".", ".">>,
     <<"/", "/", "a", "/", ".", ".", "/", ".", ".", "b">>,
     <<"/", ".", ".", "/", "a", "/", ".", "/", "b", ".", ".">>,
     <<".", ".", ".", "/", "a", "/", ".", ".", ".">>,
     <<"a", "/", "b", "/", ".", ".", "/", ".", ".", "/", ".", ".", "/",
       "c">>,
     <<"-", "a", "/", "_", "b", "/", ".", "c", ".", "d">>}


\* names around the length limit and the names of 256 and 257 separators
LongNames ==
    {Repeat(<<"a">>, n) : n \in (_AZURE_NAME_MAX_LEN - 1)..(_AZURE_NAME_MAX_LEN + 2)}
    \cup {<<"/">> \o Repeat(<<"a">>, _AZURE_NAME_MAX_LEN) \o <<"/", ".">>,
          <<"$">> \o Repeat(<<"a">>, _AZURE_NAME_MAX_LEN + 1),
          Repeat(<<"a", "/", "a">>, 256),
          Repeat(<<"a", "/", "a">>, 257)}

\* every name over Alphabet of at most MaxRawLen characters
ShortNames == UNION {[1..n -> Alphabet] : n \in 0..MaxRawLen}

RawNames == ShortNames \cup TestNames \cup TraversalNames \cup LongNames

(***************************************************************************)
(* State of the storage calls.                                             *)
(***************************************************************************)
NoOutcome == [ok |-> FALSE, name |-> <<>>, error |-> "pending"]

\* no AzureStorageFile has been constructed. Of a file: raw (the name
\* argument), name, mode (a sequence of characters), is_dirty, has_file
\* (_file is not None), buffer (the chunks _file holds), closing (close is
\* inside storage.save); and what has happened: before (the container when
\* the constructor was entered), put_blobs (the names _put_blob was called
\* with), uploads (the names close uploaded to), log (the methods that were
\* called, in order, each with how it ended)
NoFile ==
    [state |-> "none", raw |-> <<>>, name |-> <<>>, mode |-> <<>>,
     is_dirty |-> FALSE, has_file |-> FALSE, buffer |-> <<>>, closing |-> FALSE,
     before |-> <<>>, put_blobs |-> <<>>, uploads |-> <<>>, log |-> <<>>]

\* listdir has not been called. Of a call: path, store (the container when
\* it was called), names (what list_all returned, in the order of the
\* listing), dirs and files (the result)
NoListing ==
    [pc |-> "idle", path |-> <<>>, store |-> <<>>, names |-> <<>>,
     dirs |-> <<>>, files |-> <<>>]

(***************************************************************************)
(* SpecNorm: get_valid_name applied to a raw name, then to its own result. *)
(***************************************************************************)
InitNorm ==
    /\ raw \in RawNames
    /\ npc = "start"
    /\ out1 = NoOutcome
    /\ out2 = NoOutcome
    /\ overwrite_files = TRUE
    /\ blobs = <<>>
    /\ call = <<>>
    /\ file = NoFile
    /\ ls = NoListing

\* storage.get_valid_name(raw)
Normalize ==
    /\ npc = "start"
    /\ out1' = get_valid_name(raw)
    /\ npc' = "once"
    /\ UNCHANGED <<raw, out2, overwrite_files, blobs, call, file, ls>>

\* storage.get_valid_name(storage.get_valid_name(raw)), when the first call returned
Renormalize ==
    /\ npc = "once"
    /\ out1.ok
    /\ out2' = get_valid_name(out1.name)
    /\ npc' = "twice"
    /\ UNCHANGED <<raw, out1, overwrite_files, blobs, call, file, ls>>

NextNorm == Normalize \/ Renormalize

SpecNorm == InitNorm /\ [][NextNorm]_vars

(***************************************************************************)
(* os.path.split, os.path.splitext and os.path.join (posixpath), used on   *)
(* the candidate name by the probe loop.                                   *)
(***************************************************************************)
\* p.rfind(c) + 1: the last position of c in p, 0 when there is none
rfind(p, c) ==
    LET at == {i \in 1..Len(p) : p[i] = c}
    IN  IF at = {} THEN 0 ELSE CHOOSE i \in at : \A j \in at : j <= i

\* os.path.split(p): <<head, tail>>
os_path_split(p) ==
    LET i == rfind(p, "/")
        head == SubSeq(p, 1, i)
        tail == SubSeq(p, i + 1, Len(p))
        other == {k \in 1..Len(head) : head[k] # "/"}
    IN  IF other = {} THEN <<head, tail>>
        ELSE <<SubSeq(head, 1, CHOOSE k \in other : \A j \in other : j <= k), tail>>

\* os.path.splitext(p): <<root, ext>>; dots that lead the last segment start
\* no extension
os_path_splitext(p) ==
    LET sepIndex == rfind(p, "/")
        dotIndex == rfind(p, ".")
    IN  IF /\ dotIndex > sepIndex
           /\ \E k \in (sepIndex + 1)..(dotIndex - 1) : p[k] # "."
        THEN <<SubSeq(p, 1, dotIndex - 1), SubSeq(p, dotIndex, Len(p))>>
        ELSE <<p, <<>> >>

\* os.path.join(a, b)
os_path_join(a, b) ==
    IF startswith(b, <<"/">>) THEN b
    ELSE IF a = <<>> \/ a[Len(a)] = "/" THEN a \o b
    ELSE a \o <<"/">> \o b

(***************************************************************************)
(* The container and the calls on the storage.                             *)
(***************************************************************************)
Callers == {1, 2}

\* get_random_string(7) of Storage.get_available_name
TokenLen == 7
Tokens == {Repeat(<<"x">>, TokenLen), Repeat(<<"y">>, TokenLen)}

\* connection.exists(container, name)
connection_exists(store, name) == name \in DOMAIN store

\* a variant that leaves a blob that is already there as it is
CreateBlobIfAbsent(store, name, content) ==
    [n \in DOMAIN store \cup {name} |->
        IF n \in DOMAIN store THEN store[n] ELSE content]

\* connection.create_blob_from_stream(container, name, stream): the blob is
\* created or replaced
create_blob_from_stream(store, name, content) ==
    [n \in DOMAIN store \cup {name} |-> IF n = name THEN content ELSE store[n]]

\* a variant that asks the connection and answers the opposite
ExistsNegated(store, name) == ~connection_exists(store, name)

\* AzureStorage.exists
exists(store, name) == connection_exists(store, name)

\* A call: its arguments, the locals of the probe loop, its outcome, and what
\* it did (candidates: the names the loop tested, in order; exists_log: the
\* calls of connection.exists it made, with their answers; written: the names
\* it uploaded to; clobbered: whether a blob was there when it uploaded).
IdleCall ==
    [pc |-> "idle", op |-> "none", raw |-> <<>>, arg_max_length |-> 0,
     content |-> <<>>, name |-> <<>>, max_length |-> 0, dir_name |-> <<>>,
     file_root |-> <<>>, file_ext |-> <<>>, candidates |-> <<>>,
     exists_log |-> <<>>, result |-> NoOutcome, written |-> <<>>,
     clobbered |-> FALSE]

\* entry of Storage.get_available_name(name, max_length): the split of the
\* name before the loop
EnterLoop(c, name, max_length) ==
    LET parts == os_path_split(name)
        ext == os_path_splitext(parts[2])
    IN  [c EXCEPT !.pc = "probe", !.name = name, !.max_length = max_length,
                  !.dir_name = parts[1], !.file_root = ext[1], !.file_ext = ext[2]]

\* a variant that hands the raw name to the loop
GetAvailableNameUnnormalised(c, store, name, max_length) ==
    IF ~get_valid_name(name).ok
    THEN [c EXCEPT !.pc = "raised", !.result = get_valid_name(name)]
    ELSE EnterLoop(c, name, max_length)

\* a variant that tests the name itself before it enters the loop
GetAvailableNameExtraExists(c, store, name, max_length) ==
    LET v == get_valid_name(name)
    IN  IF ~v.ok THEN [c EXCEPT !.pc = "raised", !.result = v]
        ELSE EnterLoop(
                 [c EXCEPT !.exists_log = Append(@,
                     [name |-> v.name, answer |-> connection_exists(store, v.name)])],
                 v.name, max_length)

\* a variant that hands the loop the default limit
GetAvailableNameDefaultLimit(c, store, name, max_length) ==
    LET v == get_valid_name(name)
    IN  IF ~v.ok THEN [c EXCEPT !.pc = "raised", !.result = v]
        ELSE EnterLoop(c, v.name, _AZURE_NAME_MAX_LEN)

\* a variant that asks the store about the raw name before it normalises
GetAvailableNameProbesRaw(c, store, name, max_length) ==
    LET v == get_valid_name(name)
        asked == [c EXCEPT !.exists_log = Append(@,
                     [name |-> name, answer |-> connection_exists(store, name)])]
    IN  IF ~v.ok THEN [asked EXCEPT !.pc = "raised", !.result = v]
        ELSE EnterLoop(c, v.name, max_length)

\* AzureStorage.get_available_name(name, max_length) up to the loop
get_available_name(c, store, name, max_length) ==
    LET v == get_valid_name(name)
    IN  IF ~v.ok THEN [c EXCEPT !.pc = "raised", !.result = v]
        ELSE EnterLoop(c, v.name, max_length)

\* "%s_%s%s" % (file_root, token, file_ext) joined to dir_name
Alternative(dir_name, file_root, token, file_ext) ==
    os_path_join(dir_name, file_root \o <<"_">> \o token \o file_ext)

\* a variant that accepts the candidate when the stem is used up
LoopBodyAcceptsEmptyRoot(c, token1, token2) ==
    LET name1 == Alternative(c.dir_name, c.file_root, token1, c.file_ext)
        truncation == Len(name1) - c.max_length
        file_root == SubSeq(c.file_root, 1, Len(c.file_root) - truncation)
    IN  IF truncation > 0
        THEN IF file_root = <<>>
             THEN [c EXCEPT !.name = name1, !.file_root = file_root,
                            !.pc = "returned", !.result = Ok(name1)]
             ELSE [c EXCEPT !.file_root = file_root,
                            !.name = Alternative(c.dir_name, file_root, token2,
                                                 c.file_ext)]
        ELSE [c EXCEPT !.name = name1]

\* the body of the loop of Storage.get_available_name, with the two random
\* strings it may draw
LoopBody(c, token1, token2) ==
    LET name1 == Alternative(c.dir_name, c.file_root, token1, c.file_ext)
        truncation == Len(name1) - c.max_length
        file_root == SubSeq(c.file_root, 1, Len(c.file_root) - truncation)
    IN  IF truncation > 0
        THEN IF file_root = <<>>
             THEN [c EXCEPT !.name = name1, !.file_root = file_root, !.pc = "raised",
                            !.result = Raised("SuspiciousFileOperation")]
             ELSE [c EXCEPT !.file_root = file_root,
                            !.name = Alternative(c.dir_name, file_root, token2,
                                                 c.file_ext)]
        ELSE [c EXCEPT !.name = name1]

\* a variant that resolves the name as if overwriting were disabled
SaveAlwaysProbes(c, store, overwrite, name, content) ==
    get_available_name([c EXCEPT !.op = "save", !.raw = name, !.content = content,
                                 !.arg_max_length = _AZURE_NAME_MAX_LEN],
                       store, name, _AZURE_NAME_MAX_LEN)

\* AzureStorage.save(name, content) up to the upload: the name is resolved
save(c, store, overwrite, name, content) ==
    LET c0 == [c EXCEPT !.op = "save", !.raw = name, !.content = content,
                        !.arg_max_length = _AZURE_NAME_MAX_LEN]
        v == get_valid_name(name)
    IN  IF overwrite
        THEN IF ~v.ok THEN [c0 EXCEPT !.pc = "raised", !.result = v]
             ELSE [c0 EXCEPT !.pc = "write", !.name = v.name]
        ELSE get_available_name(c0, store, name, _AZURE_NAME_MAX_LEN)

(***************************************************************************)
(* Spec: one caller's call of get_available_name or save on a container    *)
(* that other clients upload to.                                           *)
(***************************************************************************)
\* the raw names of the calls
CallNames ==
    {<<"f", "o", "o", " ", "b", "a", "r", " ", "b", "a", "z", ".", "t",
       "x", "t">>,
     <<"f", "o", "o", ".", "t", "x", "t">>,
     <<"s", "o", "m", "e", " ", "d", "i", "r", "/", "a", "b", ".", "t">>,
     <<"a", ".", "b", "/", "c">>,
     <<".", "x", "/", ".", "h", "i", "d">>,
     <<"$", "$">>,
     <<>>,
     Repeat(<<"a">>, 1000),
     Repeat(<<"a">>, _AZURE_NAME_MAX_LEN + 1)}

\* the max_length arguments of the calls; None and 0 mean no limit to the
\* loop and are not drawn
MaxLengths == {5, 13, 100, _AZURE_NAME_MAX_LEN}

\* a content is the sequence of the chunks written to the stream
Contents == {<<"new content">>}

calls_vars == <<overwrite_files, blobs, call>>

Init ==
    /\ raw = <<>>
    /\ npc = "unused"
    /\ out1 = NoOutcome
    /\ out2 = NoOutcome
    /\ overwrite_files \in BOOLEAN
    /\ blobs = <<>>
    /\ call = [p \in Callers |-> IdleCall]
    /\ file = NoFile
    /\ ls = NoListing

\* storage.get_available_name(name, max_length) is called
CallGetAvailableName(p) ==
    /\ call[p].pc = "idle"
    /\ \E name \in CallNames, max_length \in MaxLengths :
           call' = [call EXCEPT ![p] =
               get_available_name(
                   [call[p] EXCEPT !.op = "get_available_name", !.raw = name,
                                   !.arg_max_length = max_length],
                   blobs, name, max_length)]
    /\ UNCHANGED <<raw, npc, out1, out2, overwrite_files, blobs, file, ls>>

\* storage.save(name, content) is called
CallSave(p) ==
    /\ call[p].pc = "idle"
    /\ \E name \in CallNames, content \in Contents :
           call' = [call EXCEPT ![p] =
                        save(call[p], blobs, overwrite_files, name, content)]
    /\ UNCHANGED <<raw, npc, out1, out2, overwrite_files, blobs, file, ls>>

\* one test of the loop condition "self.exists(name) or (max_length and
\* len(name) > max_length)", then the loop body or the return
Probe(p) ==
    LET c == call[p]
        tested == [c EXCEPT !.candidates = Append(@, c.name),
                            !.exists_log = Append(@,
                                [name |-> c.name,
                                 answer |-> connection_exists(blobs, c.name)])]
    IN  /\ c.pc = "probe"
        /\ Len(c.candidates) < MaxProbes
        /\ IF \/ exists(blobs, c.name)
              \/ (c.max_length # 0 /\ Len(c.name) > c.max_length)
           THEN \E token1 \in Tokens, token2 \in Tokens :
                    call' = [call EXCEPT ![p] = LoopBody(tested, token1, token2)]
           ELSE call' = [call EXCEPT ![p] =
                    [tested EXCEPT !.pc = IF c.op = "save" THEN "write" ELSE "returned",
                                   !.result = IF c.op = "save" THEN NoOutcome
                                              ELSE Ok(c.name)]]
        /\ UNCHANGED <<raw, npc, out1, out2, overwrite_files, blobs, file, ls>>

\* the upload of save, and its return
Write(p) ==
    LET c == call[p]
    IN  /\ c.pc = "write"
        /\ blobs' = create_blob_from_stream(blobs, c.name, c.content)
        /\ call' = [call EXCEPT ![p] =
               [c EXCEPT !.pc = "returned", !.result = Ok(c.name),
                         !.written = Append(@, c.name),
                         !.clobbered = connection_exists(blobs, c.name)]]
        /\ UNCHANGED <<raw, npc, out1, out2, overwrite_files, file, ls>>

\* another client of the container uploads a blob under the name the call is
\* about to test or to write
ExternalUpload(p) ==
    /\ call[p].pc \in {"probe", "write"}
    /\ ~connection_exists(blobs, call[p].name)
    /\ blobs' = create_blob_from_stream(blobs, call[p].name, <<"other content">>)
    /\ UNCHANGED <<raw, npc, out1, out2, overwrite_files, call, file, ls>>

Next ==
    \E p \in {1} :
        \/ CallGetAvailableName(p)
        \/ CallSave(p)
        \/ Probe(p)
        \/ Write(p)
        \/ ExternalUpload(p)

Spec == Init /\ [][Next]_vars

(***************************************************************************)
(* SpecRace: two callers save concurrently; each step of a call (a test of *)
(* the loop condition, the upload) is one call to the store, and the steps *)
(* of the two callers interleave.                                          *)
(***************************************************************************)
\* the raw names the two callers save under
RaceNames ==
    {<<"f", "o", "o", ".", "t", "x", "t">>,
     <<"f", "o", "o", " ", "b", "a", "r", " ", "b", "a", "z", ".", "t",
       "x", "t">>,
     <<"$", "$">>}

\* the content each caller saves
OwnContent(p) == IF p = 1 THEN <<"content of one">> ELSE <<"content of two">>

\* storage.save(name, content) is called by caller p with its own content
CallSaveOwn(p) ==
    /\ call[p].pc = "idle"
    /\ \E name \in RaceNames :
           call' = [call EXCEPT ![p] =
                        save(call[p], blobs, overwrite_files, name, OwnContent(p))]
    /\ UNCHANGED <<raw, npc, out1, out2, overwrite_files, blobs, file, ls>>

NextRace ==
    \E p \in Callers :
        \/ CallSaveOwn(p)
        \/ Probe(p)
        \/ Write(p)

SpecRace == Init /\ [][NextRace]_vars

(***************************************************************************)
(* SpecLive: one call of get_available_name that runs on as long as it has *)
(* not ended, on a container that other clients upload to.                 *)
(***************************************************************************)
\* one test of the loop condition, then the loop body or the return, however
\* many candidates were tested before; of the tests, the first MaxProbes are
\* kept in candidates and exists_log
ProbeOn(p) ==
    LET c == call[p]
        tested == IF Len(c.candidates) >= MaxProbes THEN c
                  ELSE [c EXCEPT !.candidates = Append(@, c.name),
                                 !.exists_log = Append(@,
                                     [name |-> c.name,
                                      answer |-> connection_exists(blobs, c.name)])]
    IN  /\ c.pc = "probe"
        /\ c.op = "get_available_name"
        /\ IF \/ exists(blobs, c.name)
              \/ (c.max_length # 0 /\ Len(c.name) > c.max_length)
           THEN \E token1 \in Tokens, token2 \in Tokens :
                    call' = [call EXCEPT ![p] = LoopBody(tested, token1, token2)]
           ELSE call' = [call EXCEPT ![p] =
                    [tested EXCEPT !.pc = "returned", !.result = Ok(c.name)]]
        /\ UNCHANGED <<raw, npc, out1, out2, overwrite_files, blobs, file, ls>>

NextLive ==
    \/ CallGetAvailableName(1)
    \/ ProbeOn(1)
    \/ ExternalUpload(1)

\* a call that has begun is run on: the loop is not suspended for ever
SpecLive == Init /\ [][NextLive]_vars /\ WF_vars(ProbeOn(1))

(***************************************************************************)
(* AzureStorageFile.                                                       *)
(***************************************************************************)
\* ch in s
contains(s, ch) == \E i \in 1..Len(s) : s[i] = ch

\* the largest chunk write accepts
MaxChunkSize == 100 * 1024 * 1024

\* an entry of the log of a file
Returned(op) == [op |-> op, ok |-> TRUE, error |-> "none"]
Failed(op, error) == [op |-> op, ok |-> FALSE, error |-> error]

\* connection._put_blob(container, name, None): the blob is created or
\* replaced, with no content
_put_blob(store, name) ==
    [n \in DOMAIN store \cup {name} |-> IF n = name THEN <<>> ELSE store[n]]

\* AzureStorageFile.__init__(name, mode, storage), the file it leaves; the
\* blob it puts is PutBlobOfInit
AzureStorageFile(store, name, mode) ==
    LET v == get_valid_name(name)
    IN  IF ~v.ok
        THEN [NoFile EXCEPT !.state = "failed", !.raw = name, !.before = store]
        ELSE [NoFile EXCEPT !.state = "open", !.raw = name, !.name = v.name,
                            !.mode = mode, !.before = store,
                            !.put_blobs = IF contains(mode, "w") THEN <<v.name>>
                                          ELSE <<>>]

\* the container after the _put_blob calls of a constructed file
PutBlobOfInit(store, f) ==
    IF Len(f.put_blobs) = 0 THEN store ELSE _put_blob(store, f.put_blobs[1])

\* the property AzureStorageFile.file: the spooled file is made on first
\* use, and filled from the blob when the mode holds 'r'; a missing blob makes
\* get_blob_to_stream raise, after _file was assigned
file_property(f, store) ==
    IF f.has_file THEN [f |-> f, ok |-> TRUE]
    ELSE IF ~contains(f.mode, "r")
    THEN [f |-> [f EXCEPT !.has_file = TRUE, !.buffer = <<>>], ok |-> TRUE]
    ELSE IF connection_exists(store, f.name)
    THEN [f |-> [f EXCEPT !.has_file = TRUE, !.buffer = store[f.name]], ok |-> TRUE]
    ELSE [f |-> [f EXCEPT !.has_file = TRUE, !.buffer = <<>>], ok |-> FALSE]

\* AzureStorageFile.read
read(f, store) ==
    IF ~contains(f.mode, "r")
    THEN [f EXCEPT !.log = Append(@, Failed("read", "AttributeError"))]
    ELSE LET g == file_property(f, store)
         IN  IF g.ok THEN [g.f EXCEPT !.log = Append(@, Returned("read"))]
             ELSE [g.f EXCEPT !.log = Append(@,
                       Failed("read", "AzureMissingResourceHttpError"))]

\* a variant that marks the file dirty before it looks at the mode
WriteFlagsFirst(f, store, content) ==
    IF content.len > MaxChunkSize
    THEN [f EXCEPT !.log = Append(@, Failed("write", "ValueError"))]
    ELSE IF ~contains(f.mode, "w")
    THEN [f EXCEPT !.is_dirty = TRUE,
                   !.log = Append(@, Failed("write", "AttributeError"))]
    ELSE LET g == file_property([f EXCEPT !.is_dirty = TRUE], store)
         IN  IF ~g.ok
             THEN [g.f EXCEPT !.log = Append(@,
                       Failed("write", "AzureMissingResourceHttpError"))]
             ELSE IF ~content.encodable
             THEN [g.f EXCEPT !.log = Append(@, Failed("write", "UnicodeEncodeError"))]
             ELSE [g.f EXCEPT !.buffer = Append(@, content.data),
                              !.log = Append(@, Returned("write"))]

\* AzureStorageFile.write(content): the two tests, the flag, then
\* super().write(force_bytes(content)), which takes self.file.write first and
\* encodes the content second
write(f, store, content) ==
    IF content.len > MaxChunkSize
    THEN [f EXCEPT !.log = Append(@, Failed("write", "ValueError"))]
    ELSE IF ~contains(f.mode, "w")
    THEN [f EXCEPT !.log = Append(@, Failed("write", "AttributeError"))]
    ELSE LET g == file_property([f EXCEPT !.is_dirty = TRUE], store)
         IN  IF ~g.ok
             THEN [g.f EXCEPT !.log = Append(@,
                       Failed("write", "AzureMissingResourceHttpError"))]
             ELSE IF ~content.encodable
             THEN [g.f EXCEPT !.log = Append(@, Failed("write", "UnicodeEncodeError"))]
             ELSE [g.f EXCEPT !.buffer = Append(@, content.data),
                              !.log = Append(@, Returned("write"))]

(***************************************************************************)
(* SpecFile: one file is opened on a container that may hold blobs, and    *)
(* its methods are called in any order; a close of a dirty file runs       *)
(* storage.save as call 1.                                                 *)
(***************************************************************************)
\* the most method calls made on the file
MaxFileOps == 4

\* the name arguments of open
FileNames ==
    {<<"t", "e", "s", "t", "_", "o", "p", "e", "n", "_", "f", "o", "r", "_",
       "w", "r", "i", "t", "U+00EF", "n", "g", ".", "t", "x", "t">>,
     <<"s", "o", "m", "e", " ", "d", "i", "r", "/", "a", "b", ".", "t">>,
     <<"$", "$">>}

\* the mode arguments of open; none holds both 'r' and 'w', so where a write
\* lands in a downloaded stream is not modelled
FileModes ==
    {<<"r", "b">>, <<"r">>, <<"r", "+">>, <<"a">>,
     <<"w">>, <<"w", "b">>, <<"w", "+">>}

\* the content arguments of write: the data, len(content), and whether
\* force_bytes can encode it (a str with a lone surrogate it cannot)
Chunks ==
    {[data |-> "new content", len |-> 11, encodable |-> TRUE],
     [data |-> "a chunk of more than 100MB", len |-> MaxChunkSize + 1,
      encodable |-> TRUE],
     [data |-> "U+DC80", len |-> 1, encodable |-> FALSE]}

\* a blob is in the container before the file is opened
PriorUpload ==
    /\ file.state = "none"
    /\ \E name \in FileNames :
           /\ get_valid_name(name).ok
           /\ ~connection_exists(blobs, get_valid_name(name).name)
           /\ blobs' = create_blob_from_stream(blobs, get_valid_name(name).name,
                                               <<"other content">>)
    /\ UNCHANGED <<raw, npc, out1, out2, overwrite_files, call, file, ls>>

\* storage.open(name, mode), that is AzureStorage._open
Open ==
    /\ file.state = "none"
    /\ \E name \in FileNames, mode \in FileModes :
           /\ file' = AzureStorageFile(blobs, name, mode)
           /\ blobs' = PutBlobOfInit(blobs, file')
    /\ UNCHANGED <<raw, npc, out1, out2, overwrite_files, call, ls>>

\* a method may be called on the file
Callable ==
    /\ file.state = "open"
    /\ ~file.closing
    /\ Len(file.log) < MaxFileOps

\* file.read()
ReadFile ==
    /\ Callable
    /\ file' = read(file, blobs)
    /\ UNCHANGED <<raw, npc, out1, out2, overwrite_files, blobs, call, ls>>

\* file.file
GetFile ==
    /\ Callable
    /\ ~file.has_file
    /\ LET g == file_property(file, blobs)
       IN  file' = [g.f EXCEPT !.log = Append(@,
                        IF g.ok THEN Returned("file")
                        ELSE Failed("file", "AzureMissingResourceHttpError"))]
    /\ UNCHANGED <<raw, npc, out1, out2, overwrite_files, blobs, call, ls>>

\* file.write(content)
WriteFile ==
    /\ Callable
    /\ \E content \in Chunks : file' = write(file, blobs, content)
    /\ UNCHANGED <<raw, npc, out1, out2, overwrite_files, blobs, call, ls>>

\* file.close(): it returns at once when there is no spooled file, closes
\* the spooled file when it is clean, and enters storage.save when it is dirty
Close ==
    /\ Callable
    /\ IF ~file.has_file
       THEN /\ file' = [file EXCEPT !.log = Append(@, Returned("close"))]
            /\ UNCHANGED call
       ELSE IF ~file.is_dirty
       THEN /\ file' = [file EXCEPT !.has_file = FALSE, !.buffer = <<>>,
                                    !.log = Append(@, Returned("close"))]
            /\ UNCHANGED call
       ELSE /\ file' = [file EXCEPT !.closing = TRUE]
            /\ call' = [call EXCEPT ![1] =
                   save(IdleCall, blobs, overwrite_files, file.name, file.buffer)]
    /\ UNCHANGED <<raw, npc, out1, out2, overwrite_files, blobs, ls>>

\* storage.save has ended inside close: after its return the file is clean
\* and the spooled file is closed; its error leaves close at that line
CloseAfterSave ==
    /\ file.closing
    /\ call[1].pc \in {"returned", "raised"}
    /\ file' = IF call[1].pc = "returned"
               THEN [file EXCEPT !.closing = FALSE, !.is_dirty = FALSE,
                                 !.has_file = FALSE, !.buffer = <<>>,
                                 !.uploads = @ \o call[1].written,
                                 !.log = Append(@, Returned("close"))]
               ELSE [file EXCEPT !.closing = FALSE,
                                 !.log = Append(@,
                                     Failed("close", call[1].result.error))]
    /\ call' = [call EXCEPT ![1] = IdleCall]
    /\ UNCHANGED <<raw, npc, out1, out2, overwrite_files, blobs, ls>>

NextFile ==
    \/ PriorUpload
    \/ Open
    \/ ReadFile
    \/ GetFile
    \/ WriteFile
    \/ Close
    \/ Probe(1)
    \/ Write(1)
    \/ CloseAfterSave

SpecFile == Init /\ [][NextFile]_vars

(***************************************************************************)
(* AzureStorage.list_all and AzureStorage.listdir.                         *)
(***************************************************************************)
\* s.endswith(suffix)
endswith(s, suffix) ==
    Len(s) >= Len(suffix) /\ SubSeq(s, Len(s) - Len(suffix) + 1, Len(s)) = suffix

\* the injective sequences of all the elements of S: the orders a listing of
\* S can come in
Orderings(S) ==
    {order \in [1..Cardinality(S) -> S] :
        \A i, j \in 1..Cardinality(S) : order[i] = order[j] => i = j}

\* connection.list_blobs(container, prefix=path): the blobs whose name
\* starts with the prefix
list_blobs(store, prefix) == {name \in DOMAIN store : startswith(name, prefix)}

\* dirs.add(d), dirs kept as the sequence of its elements in the order they
\* came
set_add(dirs, d) ==
    IF \E i \in 1..Len(dirs) : dirs[i] = d THEN dirs ELSE Append(dirs, d)

\* a variant of the loop body that keeps the directories in a list
ListdirStepAppends(acc, path, name) ==
    LET n == SubSeq(name, Len(path) + 1, Len(name))
    IN  IF contains(n, "/")
        THEN [acc EXCEPT !.dirs = Append(@, split(n, "/")[1])]
        ELSE [acc EXCEPT !.files = Append(@, n)]

\* the body of "for name in self.list_all(path)"
ListdirStep(acc, path, name) ==
    LET n == SubSeq(name, Len(path) + 1, Len(name))
    IN  IF contains(n, "/")
        THEN [acc EXCEPT !.dirs = set_add(@, split(n, "/")[1])]
        ELSE [acc EXCEPT !.files = Append(@, n)]

\* "for name in self.list_all(path)", from the i-th name on
RECURSIVE ListdirLoop(_, _, _, _)
ListdirLoop(acc, path, names, i) ==
    IF i > Len(names) THEN acc
    ELSE ListdirLoop(ListdirStep(acc, path, names[i]), path, names, i + 1)

\* the path listdir hands to list_all
ListdirPrefix(path) ==
    IF path # <<>> /\ ~endswith(path, <<"/">>) THEN path \o <<"/">> ELSE path

\* AzureStorage.listdir(path), given the order the listing came in
listdir(names, path) ==
    ListdirLoop([dirs |-> <<>>, files |-> <<>>], ListdirPrefix(path), names, 1)

(***************************************************************************)
(* SpecList: blobs are uploaded to the container, then listdir is called.  *)
(***************************************************************************)
\* the most blobs in the container
MaxBlobs == 4

\* the names of the blobs
ListNames ==
    {<<"s", "o", "m", "e", "/", "p", "a", "t", "h", "/", "1", ".", "t", "x",
       "t">>,
     <<"2", ".", "t", "x", "t">>,
     <<"o", "t", "h", "e", "r", "/", "p", "a", "t", "h", "/", "3", ".", "t",
       "x", "t">>,
     <<"4", ".", "t", "x", "t">>,
     <<"s", "o", "m", "e", "/", "2", ".", "t", "x", "t">>,
     <<"s", "o", "m", "e">>,
     <<"s", "o", "m", "e", "/">>,
     <<"s", "o", "m", "e", "w", "h", "e", "r", "e", "/", "5", ".", "t", "x",
       "t">>,
     <<"s", "o", "m", "e", "/", "/", "6", ".", "t", "x", "t">>,
     <<"s", "o", "m", "e", "/", "p", "a", "t", "h", "/", "7", ".", "t", "x",
       "t">>}

\* the path arguments of listdir
ListPaths ==
    {<<>>,
     <<"s", "o", "m", "e">>,
     <<"s", "o", "m", "e", "/">>,
     <<"s", "o", "m", "e", "/", "p", "a", "t", "h">>,
     <<"s", "o">>,
     <<"o", "t", "h", "e", "r", "/">>}

\* a blob is uploaded
UploadListed ==
    /\ ls.pc = "idle"
    /\ Cardinality(DOMAIN blobs) < MaxBlobs
    /\ \E name \in ListNames \ DOMAIN blobs :
           blobs' = create_blob_from_stream(blobs, name, <<"other content">>)
    /\ UNCHANGED <<raw, npc, out1, out2, overwrite_files, call, file, ls>>

\* storage.listdir(path) is called; the listing comes in some order
ListDir ==
    /\ ls.pc = "idle"
    /\ \E path \in ListPaths :
           \E names \in Orderings(list_blobs(blobs, ListdirPrefix(path))) :
               ls' = [pc |-> "returned", path |-> path, store |-> blobs,
                      names |-> names,
                      dirs |-> listdir(names, path).dirs,
                      files |-> listdir(names, path).files]
    /\ UNCHANGED <<raw, npc, out1, out2, overwrite_files, blobs, call, file>>

NextList == UploadListed \/ ListDir

SpecList == Init /\ [][NextList]_vars

(***************************************************************************)
(* Claims about the normalisation (SpecNorm).                              *)
(***************************************************************************)
\* name.count('/')
CountSlashes(name) == Cardinality({i \in 1..Len(name) : name[i] = "/"})

\* C1: normalisation is idempotent: whenever get_valid_name(raw) returns,
\* get_valid_name of the returned name returns too, and returns the same name.
C1_Idempotent ==
    npc = "twice" => (out2.ok /\ out2.name = out1.name)

\* a raw name that normalisation changed, normalised a second time
C1_Witness ==
    /\ npc = "twice"
    /\ out2.ok
    /\ out1.name # raw
    /\ Len(out1.name) >= 2

\* The reference algorithm of the specification: one round of the segment
\* filter (drop empty and '.', let '..' remove the segment kept last).
RefStep(kept, seg) ==
    IF seg = <<>> \/ seg = <<".">> THEN kept
    ELSE IF seg = dotdot
    THEN IF kept = <<>> THEN kept ELSE SubSeq(kept, 1, Len(kept) - 1)
    ELSE Append(kept, seg)

\* the rounds for segs[lo..hi], in order; the first half before the second
RECURSIVE RefLoop(_, _, _, _)
RefLoop(kept, segs, lo, hi) ==
    IF lo > hi THEN kept
    ELSE IF lo = hi THEN RefStep(kept, segs[lo])
    ELSE LET mid == (lo + hi) \div 2
             half == RefLoop(kept, segs, lo, mid)
         IN  IF Len(half) >= 0 THEN RefLoop(half, segs, mid + 1, hi) ELSE half

RefNormalize(s) ==
    LET replaced == [i \in 1..Len(s) |->
                        IF s[i] = "\\" THEN "/" ELSE IF s[i] = " " THEN "_" ELSE s[i]]
        legal == SelectSeq(replaced, AllowedChar)
        segs == split(legal, "/")
        kept == RefLoop(<<>>, segs, 1, Len(segs))
    IN  strip(join(kept, "/"), {".", "/"})

\* the examples the claim names
C2_Examples ==
    {[raw |-> <<"p", "a", "t", "h", "/", "t", "o", "/", ".", ".", "/", "s",
                "o", "m", "e", "w", "h", "e", "r", "e">>,
      name |-> <<"p", "a", "t", "h", "/", "s", "o", "m", "e", "w", "h",
                 "e", "r", "e">>],
     [raw |-> <<"p", "a", "t", "h", "\\", "t", "o", "\\", ".", ".", "\\">>,
      name |-> <<"p", "a", "t", "h">>],
     [raw |-> <<"p", "a", "t", "h", "/", "t", "o", "/", ".", ".", "/">>,
      name |-> <<"p", "a", "t", "h">>],
     [raw |-> <<"s", "o", "m", "e", "/", "/", "/", "p", "a", "t", "h">>,
      name |-> <<"s", "o", "m", "e", "/", "p", "a", "t", "h">>],
     [raw |-> <<"s", "o", "m", "e", "/", "$", "/", "p", "a", "t", "h">>,
      name |-> <<"s", "o", "m", "e", "/", "p", "a", "t", "h">>],
     [raw |-> <<"/", "$", "/", "p", "a", "t", "h">>,
      name |-> <<"p", "a", "t", "h">>]}

\* C2: get_valid_name returns what the reference algorithm gives (replace,
\* delete, split, drop empty and '.', '..' removes the segment kept last,
\* rejoin, trim dots and slashes), and raises only where that is empty or
\* longer than the limit; the named examples give the named results.
C2_ReferenceAlgorithm ==
    npc # "start" =>
        /\ out1.ok => out1.name = RefNormalize(raw)
        /\ ~out1.ok => (RefNormalize(raw) = <<>>
                        \/ Len(RefNormalize(raw)) > _AZURE_NAME_MAX_LEN)
        /\ \A e \in C2_Examples : raw = e.raw => (out1.ok /\ out1.name = e.name)

\* a name with a '..' segment in the middle has been normalised
C2_Witness ==
    /\ npc = "once"
    /\ out1.ok
    /\ \E e \in C2_Examples : raw = e.raw /\ out1.name = e.name
    /\ dotdot \in {split(raw, "/")[i] : i \in 1..Len(split(raw, "/"))}

\* no '..', '.' or empty segment; no slash or dot at either end; only allowed
\* characters, so no backslash and no space
Canonical(name) ==
    LET segs == split(name, "/")
    IN  /\ \A i \in 1..Len(segs) : segs[i] \notin {<<>>, <<".">>, dotdot}
        /\ name # <<>>
        /\ name[1] \notin {"/", "."}
        /\ name[Len(name)] \notin {"/", "."}
        /\ \A i \in 1..Len(name) :
               AllowedChar(name[i]) /\ name[i] \notin {"\\", " "}

\* C3: every name get_valid_name returns is in canonical form.
C3_CanonicalForm ==
    out1.ok => Canonical(out1.name)

\* a raw name that is not canonical (it has a '..' or an empty segment, or a
\* dot or slash at an end) has been normalised to a name of several segments
C3_Witness ==
    /\ npc = "once"
    /\ out1.ok
    /\ ~Canonical(raw)
    /\ CountSlashes(out1.name) >= 1

\* the raw names the claim lists as rejected
C4_Rejected == {<<>>, <<"/">>, <<"/", ".", ".", "/">>, <<".", ".">>, <<"/", "/", "/">>, <<"!", "!", "!">>, <<"$", "$">>}

\* C4: get_valid_name never returns an empty name: a raw name whose normalised
\* text is empty raises, which includes the listed names.
C4_NeverEmpty ==
    npc # "start" =>
        /\ out1.ok => Len(out1.name) >= 1
        /\ _get_valid_filename(raw) = <<>> => out1 = Raised("ValueError")
        /\ raw \in C4_Rejected => out1 = Raised("ValueError")

\* a non-empty raw name of disallowed characters and separators only has been
\* rejected
C4_Witness ==
    /\ npc = "once"
    /\ raw \in C4_Rejected
    /\ Len(raw) >= 2
    /\ ~out1.ok

\* C5: get_valid_name raises or returns a name of at most 1024 characters; a
\* normalised name of exactly 1024 characters is returned, one of 1025 raises.
C5_LengthBound ==
    npc # "start" =>
        /\ out1.ok => Len(out1.name) <= 1024
        /\ Len(_get_valid_filename(raw)) = 1024 => out1.ok
        /\ Len(_get_valid_filename(raw)) = 1025 => out1 = Raised("ValueError")

\* a raw name longer than the limit whose normalised text has exactly 1024
\* characters has been accepted
C5_Witness ==
    /\ npc = "once"
    /\ Len(raw) > 1024
    /\ out1.ok
    /\ Len(out1.name) = 1024

\* C6: the number of separators is limited: 'a/a' * 256 (256 separators) is
\* returned unchanged, 'a/a' * 257 (257 separators) raises, and no returned
\* name has more than 256 separators.
C6_SeparatorLimit ==
    npc # "start" =>
        /\ raw = Repeat(<<"a", "/", "a">>, 256) => (out1.ok /\ out1.name = raw)
        /\ raw = Repeat(<<"a", "/", "a">>, 257) => ~out1.ok
        /\ out1.ok => CountSlashes(out1.name) <= 256

(***************************************************************************)
(* Claims about get_available_name and save (Spec).                        *)
(***************************************************************************)
\* the call has come out of the probe loop with a name
Resolved(c) ==
    \/ c.op = "get_available_name" /\ c.pc = "returned"
    \/ c.op = "save" /\ ~overwrite_files /\ c.pc \in {"write", "returned"}

\* the existence calls of c that answered false, and those that answered
\* false for a name within the max_length of the call
FreeAnswers(c) == {i \in 1..Len(c.exists_log) : ~c.exists_log[i].answer}

FreeAndFits(c) ==
    {i \in FreeAnswers(c) : Len(c.exists_log[i].name) <= c.arg_max_length}

First(S) == CHOOSE i \in S : \A j \in S : i <= j

\* the normalised name of the call's raw name
Normalised(c) == get_valid_name(c.raw).name

\* C7 as stated: with overwrite disabled, the name get_available_name resolves
\* to (called directly or by save) is the first probed
\* candidate the existence check answered false for, never one it answered
\* true for, and is the normalised name when that is free and fits.
C7_FirstFreeCandidate ==
    \A p \in Callers :
        LET c == call[p]
        IN  (~overwrite_files /\ Resolved(c)) =>
                /\ FreeAnswers(c) # {}
                /\ c.name = c.exists_log[First(FreeAnswers(c))].name
                /\ \A i \in 1..Len(c.exists_log) :
                       c.exists_log[i].answer => c.exists_log[i].name # c.name
                /\ (~c.exists_log[1].answer
                    /\ Len(Normalised(c)) <= c.arg_max_length)
                        => c.name = Normalised(c)

\* C7, amended: with overwrite disabled, the name get_available_name resolves
\* to (called directly or by save) is the first probed
\* candidate that is within max_length and that the existence check answered
\* false for, never one it answered true for, and is the normalised name when
\* that is free and within max_length.
C7_FirstFreeCandidateThatFits ==
    \A p \in Callers :
        LET c == call[p]
        IN  (~overwrite_files /\ Resolved(c)) =>
                /\ FreeAndFits(c) # {}
                /\ First(FreeAndFits(c)) = Len(c.exists_log)
                /\ c.name = c.exists_log[First(FreeAndFits(c))].name
                /\ \A i \in 1..Len(c.exists_log) :
                       c.exists_log[i].answer => c.exists_log[i].name # c.name
                /\ (~c.exists_log[1].answer
                    /\ Len(Normalised(c)) <= c.arg_max_length)
                        => c.name = Normalised(c)

\* two candidates were taken, the third was free and is the name returned
C7_Witness ==
    \E p \in Callers :
        /\ ~overwrite_files
        /\ call[p].op = "get_available_name"
        /\ call[p].pc = "returned"
        /\ Len(call[p].exists_log) = 3
        /\ call[p].exists_log[1].answer
        /\ call[p].exists_log[2].answer
        /\ call[p].result.name # Normalised(call[p])

\* the call has been through the loop condition at least once and has ended
LeftLoop(c) ==
    \/ Resolved(c)
    \/ c.pc = "raised" /\ c.result.error = "SuspiciousFileOperation"

\* one connection.exists call per candidate the loop tested, for that candidate
OneCallPerCandidate(c) ==
    /\ Len(c.exists_log) = Len(c.candidates)
    /\ \A i \in 1..Len(c.candidates) : c.exists_log[i].name = c.candidates[i]

\* the candidates of c that were taken
Taken(c) == {i \in 1..Len(c.exists_log) : c.exists_log[i].answer}

\* C8 as stated: one existence call per probed candidate, at least one, and
\* k + 1 calls when k candidates were taken and the next one was free.
C8_CallsPerCandidate ==
    \A p \in Callers :
        LET c == call[p]
        IN  /\ OneCallPerCandidate(c)
            /\ LeftLoop(c) => Len(c.exists_log) >= 1
            /\ \A k \in 0..(Len(c.exists_log) - 1) :
                   (/\ \A i \in 1..k : c.exists_log[i].answer
                    /\ ~c.exists_log[k + 1].answer
                    /\ Resolved(c))
                       => Len(c.exists_log) = k + 1

\* C8, amended: one existence call per probed candidate, at least one, and
\* k + 1 calls when k candidates were taken or longer than max_length and the
\* next one was free and within max_length.
C8_CallsPerCandidateThatFits ==
    \A p \in Callers :
        LET c == call[p]
            passed == Taken(c) \cup
                      {i \in 1..Len(c.exists_log) :
                           Len(c.exists_log[i].name) > c.arg_max_length}
        IN  /\ OneCallPerCandidate(c)
            /\ LeftLoop(c) => Len(c.exists_log) >= 1
            /\ \A k \in 0..(Len(c.exists_log) - 1) :
                   (/\ \A i \in 1..k : i \in passed
                    /\ (k + 1) \notin passed
                    /\ Resolved(c))
                       => Len(c.exists_log) = k + 1
            /\ Resolved(c) => Len(c.exists_log) = Cardinality(passed) + 1

\* the answers were [true, false]: two calls
C8_Witness ==
    \E p \in Callers :
        /\ call[p].op = "get_available_name"
        /\ call[p].pc = "returned"
        /\ Len(call[p].candidates) = 2
        /\ call[p].exists_log[1].answer
        /\ ~call[p].exists_log[2].answer

\* name is the normalised name n with a token put before its extension and its
\* stem cut to a non-empty prefix: directory part and extension are kept
Disambiguated(name, n) ==
    LET parts == os_path_split(n)
        ext == os_path_splitext(parts[2])
        k == Len(name) - Len(os_path_join(parts[1], <<"_">>)) - TokenLen - Len(ext[2])
    IN  /\ k \in 1..Len(ext[1])
        /\ \E token \in Tokens :
               name = os_path_join(parts[1],
                          SubSeq(ext[1], 1, k) \o <<"_">> \o token \o ext[2])

\* C9: a name get_available_name(name, max_length) returns has at most
\* max_length characters, and is the normalised name or that name with
\* '_' + token put before the extension and only the stem shortened; a stem of
\* 1000 characters with max_length 100 and one collision gives 100 characters
\* with a '_'.
C9_WithinMaxLength ==
    \A p \in Callers :
        LET c == call[p]
        IN  (c.op = "get_available_name" /\ c.pc = "returned") =>
                /\ Len(c.result.name) <= c.arg_max_length
                /\ \/ c.result.name = Normalised(c)
                   \/ Disambiguated(c.result.name, Normalised(c))
                /\ (/\ c.raw = Repeat(<<"a">>, 1000)
                    /\ c.arg_max_length = 100
                    /\ Len(c.exists_log) = 2
                    /\ c.exists_log[1].answer)
                       => /\ Len(c.result.name) = 100
                          /\ \E i \in 1..100 : c.result.name[i] = "_"

\* the stem of 1000 characters, max_length 100, one collision
C9_Witness ==
    \E p \in Callers :
        /\ call[p].op = "get_available_name"
        /\ call[p].pc = "returned"
        /\ call[p].raw = Repeat(<<"a">>, 1000)
        /\ call[p].arg_max_length = 100
        /\ Len(call[p].exists_log) = 2
        /\ call[p].exists_log[1].answer
        /\ Len(call[p].result.name) = 100

\* C10: with overwrite allowed, save resolves to exactly the normalised name,
\* makes no existence call, uploads to that name whether or not a blob of the
\* name exists, and returns the name it uploaded to.
C10_SaveOverwrites ==
    \A p \in Callers :
        LET c == call[p]
        IN  (c.op = "save" /\ overwrite_files) =>
                /\ c.exists_log = <<>>
                /\ c.candidates = <<>>
                /\ c.pc \in {"write", "returned"} =>
                       (get_valid_name(c.raw).ok /\ c.name = Normalised(c))
                /\ c.pc = "returned" =>
                       /\ c.result = Ok(Normalised(c))
                       /\ c.written = <<c.result.name>>
                       /\ connection_exists(blobs, c.result.name)
                       /\ blobs[c.result.name] = c.content

\* save has replaced a blob another client had uploaded under the name
C10_Witness ==
    \E p \in Callers :
        /\ call[p].op = "save"
        /\ overwrite_files
        /\ call[p].pc = "returned"
        /\ call[p].clobbered
        /\ call[p].raw # call[p].result.name

\* C11: when the raw name fails normalisation, get_available_name and save
\* end with the error of get_valid_name, and the call has made no existence
\* call, tested no candidate and uploaded nothing, under either overwrite
\* setting.
C11_NormalizationErrorNoTrace ==
    \A p \in Callers :
        LET c == call[p]
        IN  (c.op \in {"get_available_name", "save"} /\ ~get_valid_name(c.raw).ok) =>
                /\ c.pc = "raised"
                /\ c.result = get_valid_name(c.raw)
                /\ c.result.error = "ValueError"
                /\ c.exists_log = <<>>
                /\ c.candidates = <<>>
                /\ c.written = <<>>
                /\ blobs = <<>>

\* a save with overwrite disabled has raised on a name that is too long
C11_Witness ==
    \E p \in Callers :
        /\ call[p].op = "save"
        /\ ~overwrite_files
        /\ call[p].pc = "raised"
        /\ Len(call[p].raw) > _AZURE_NAME_MAX_LEN
        /\ call[p].result = Raised("ValueError")

(***************************************************************************)
(* Claims about concurrent saves (SpecRace).                               *)
(***************************************************************************)
\* every existence call of c answered false
AllAnsweredFalse(c) ==
    \A i \in 1..Len(c.exists_log) : ~c.exists_log[i].answer

\* the two callers save the same raw name with overwrite disabled, and each
\* has left the loop on a candidate for which every answer it got was false
BothSawFree ==
    /\ ~overwrite_files
    /\ \A p \in Callers :
           /\ call[p].op = "save"
           /\ call[p].pc \in {"write", "returned"}
           /\ call[p].exists_log # <<>>
           /\ AllAnsweredFalse(call[p])
    /\ call[1].raw = call[2].raw

\* C12: with overwrite disabled, when two concurrent saves of one raw name
\* both got the answer false, they hold the same name; the upload of each is
\* enabled whatever the other has done since the test; and once both have
\* returned, both have uploaded to that one name, the later upload found the
\* blob of the earlier, and the blob holds the content of the later caller
\* only.
C12_CheckThenWriteRace ==
    BothSawFree =>
        /\ call[1].name = call[2].name
        /\ \A p \in Callers : call[p].pc = "write" => ENABLED Write(p)
        /\ (\A p \in Callers : call[p].pc = "returned") =>
               /\ \A p \in Callers :
                      /\ call[p].result = Ok(call[p].name)
                      /\ call[p].written = <<call[p].name>>
               /\ \E p \in Callers :
                      /\ call[p].clobbered
                      /\ ~call[3 - p].clobbered
                      /\ blobs[call[p].name] = call[p].content
                      /\ blobs[call[p].name] # call[3 - p].content

\* both callers were told the name was free, both uploaded to it, and the
\* content of caller 1 has been replaced by the content of caller 2
C12_Witness ==
    /\ BothSawFree
    /\ \A p \in Callers : call[p].pc = "returned"
    /\ call[1].result = call[2].result
    /\ call[1].written = call[2].written
    /\ call[2].clobbered
    /\ blobs[call[1].result.name] = OwnContent(2)

(***************************************************************************)
(* Claims about AzureStorageFile (SpecFile).                               *)
(***************************************************************************)
\* the place in the log of the first close that has ended, 0 when there is
\* none
FirstClose ==
    IF \E i \in 1..Len(file.log) : file.log[i].op = "close"
    THEN CHOOSE i \in 1..Len(file.log) :
             /\ file.log[i].op = "close"
             /\ \A j \in 1..(i - 1) : file.log[j].op # "close"
    ELSE 0

\* a write returned before the first close, that close returned, and write
\* was not called again after it
WrittenThenClosed ==
    /\ FirstClose > 0
    /\ file.log[FirstClose].ok
    /\ \E j \in 1..(FirstClose - 1) : file.log[j] = Returned("write")
    /\ \A j \in (FirstClose + 1)..Len(file.log) : file.log[j].op # "write"

\* C13: a file opened in write mode under name n has, whatever the overwrite
\* setting, made exactly one _put_blob call, for the normalised n; and once a
\* write has returned and the file has been closed, however often, exactly
\* one upload has been made, to the blob of the file's own name.
C13_WriteModeLifecycle ==
    (file.state = "open" /\ contains(file.mode, "w")) =>
        /\ file.name = get_valid_name(file.raw).name
        /\ file.put_blobs = <<file.name>>
        /\ WrittenThenClosed => file.uploads = <<file.name>>

\* C16: a file whose mode holds no 'w' has made no _put_blob call and no
\* upload, is not dirty and is not inside storage.save, every write called on
\* it ended in an error, and the container is as it was when the file was
\* opened, whatever methods were called on it.
C16_ReadOnlyFileLeavesStore ==
    (file.state = "open" /\ ~contains(file.mode, "w")) =>
        /\ file.put_blobs = <<>>
        /\ file.uploads = <<>>
        /\ ~file.is_dirty
        /\ ~file.closing
        /\ call[1] = IdleCall
        /\ blobs = file.before
        /\ \A i \in 1..Len(file.log) :
               file.log[i].op = "write" =>
                   /\ ~file.log[i].ok
                   /\ file.log[i].error \in {"ValueError", "AttributeError"}

\* a file without 'w', opened on a blob, has been read, then written to in
\* vain, then closed while its spooled file was there
C16_Witness ==
    /\ file.state = "open"
    /\ ~contains(file.mode, "w")
    /\ connection_exists(blobs, file.name)
    /\ Len(file.log) = 3
    /\ file.log[1] = Returned("read")
    /\ file.log[2] = Failed("write", "AttributeError")
    /\ file.log[3] = Returned("close")

\* C17: a file opened in write mode finds, before any method is called, the
\* blob of its name there and empty; and as long as no write has returned,
\* closed or not, no upload has been made and the blob is there and empty,
\* whatever the container held when the file was opened.
C17_OpenTruncates ==
    (file.state = "open" /\ contains(file.mode, "w")) =>
        /\ file.log = <<>> =>
               (connection_exists(blobs, file.name) /\ blobs[file.name] = <<>>)
        /\ (\A i \in 1..Len(file.log) : file.log[i] # Returned("write")) =>
               /\ file.uploads = <<>>
               /\ call[1].written = <<>>
               /\ connection_exists(blobs, file.name)
               /\ blobs[file.name] = <<>>

(***************************************************************************)
(* Claims about listdir (SpecList).                                        *)
(***************************************************************************)
\* the prefix of the claim: the path, with '/' added when it is not empty
\* and does not end in one
ListedPrefix ==
    IF Len(ls.path) > 0 /\ ls.path[Len(ls.path)] # "/"
    THEN ls.path \o <<"/">> ELSE ls.path

\* the blobs listed under the prefix
Listed ==
    {name \in DOMAIN ls.store :
        /\ Len(name) >= Len(ListedPrefix)
        /\ \A i \in 1..Len(ListedPrefix) : name[i] = ListedPrefix[i]}

\* what is left of a name after the prefix
Remainder(name) == [i \in 1..(Len(name) - Len(ListedPrefix)) |->
                       name[Len(ListedPrefix) + i]]

HasSlash(r) == \E i \in 1..Len(r) : r[i] = "/"

\* the part of r before its first '/'
FirstSegment(r) ==
    LET k == CHOOSE i \in 1..Len(r) :
                 r[i] = "/" /\ \A j \in 1..(i - 1) : r[j] # "/"
    IN  [i \in 1..(k - 1) |-> r[i]]

Elements(s) == {s[i] : i \in 1..Len(s)}

\* C14: after listdir(path), the directory list holds exactly the first
\* segments of the remainders that contain '/', each once, and the file list
\* holds exactly the other remainders, one entry for each such blob, over the
\* blobs listed under the prefix.
C14_ListdirPartitions ==
    ls.pc = "returned" =>
        LET DirBlobs == {name \in Listed : HasSlash(Remainder(name))}
            FileBlobs == Listed \ DirBlobs
        IN  /\ Elements(ls.names) = Listed
            /\ Elements(ls.dirs) = {FirstSegment(Remainder(name)) : name \in DirBlobs}
            /\ \A i, j \in 1..Len(ls.dirs) : ls.dirs[i] = ls.dirs[j] => i = j
            /\ Elements(ls.files) = {Remainder(name) : name \in FileBlobs}
            /\ Len(ls.files) = Cardinality(FileBlobs)

\* listdir('some') on a container with two blobs under one subdirectory of
\* 'some/', a blob right under it, and a blob outside it
C14_Witness ==
    /\ ls.pc = "returned"
    /\ ls.path = <<"s", "o", "m", "e">>
    /\ Cardinality(Listed) = 3
    /\ Cardinality(DOMAIN ls.store) = 4
    /\ Len(ls.dirs) = 1
    /\ Len(ls.files) = 1
    /\ ls.files[1] # <<>>

(***************************************************************************)
(* Claims about termination (SpecLive).                                    *)
(***************************************************************************)
Ended(c) == c.pc \in {"returned", "raised"}

\* the true answers the call got
TrueAnswers(c) == {i \in 1..Len(c.exists_log) : c.exists_log[i].answer}

\* the call has one outcome when it has ended: a name it holds and that is
\* within max_length, or an error; and the error of the loop comes only when
\* no alternative with a stem of one character or more is within max_length
OneOutcome(c) ==
    /\ c.pc = "returned" =>
           /\ c.result = Ok(c.name)
           /\ c.max_length # 0 => Len(c.result.name) <= c.max_length
    /\ c.pc = "raised" =>
           /\ ~c.result.ok
           /\ c.result.error \in {"ValueError", "SuspiciousFileOperation"}
           /\ c.result.error = "ValueError" <=> ~get_valid_name(c.raw).ok
           /\ c.result.error = "SuspiciousFileOperation" =>
                  \A token \in Tokens :
                      Len(Alternative(c.dir_name, <<>>, token, c.file_ext))
                          >= c.max_length

\* a test of the loop in which the existence check answers true
AnsweredTrue == ProbeOn(1) /\ exists(blobs, call[1].name)

\* C15: a get_available_name call that has ended has exactly one outcome, a
\* name within max_length or an error; once it has ended nothing of the call
\* changes; and unless the existence check answers true again and again for
\* ever, every call that has entered the loop ends.
C15_CallEnds ==
    /\ [](\A p \in Callers : OneOutcome(call[p]))
    /\ [][\A p \in Callers : Ended(call[p]) => call'[p] = call[p]]_vars
    /\ \/ []<><<AnsweredTrue>>_vars
       \/ (call[1].pc = "probe") ~> Ended(call[1])

\* the call has returned a shortened alternative after the existence check
\* answered true three times
C15_Witness ==
    /\ call[1].pc = "returned"
    /\ Cardinality(TrueAnswers(call[1])) = 3
    /\ Len(call[1].result.name) = call[1].max_length
    /\ Len(call[1].candidates) = 4

====
